---- MODULE Spec2Model ----
(***************************************************************************)
(* Model of the output-recovery and normalization pipeline of the          *)
(* agentic demo repository:                                                *)
(*   - agents/agent.py: try_extract_final and the recovery wrapper of the  *)
(*     main block (one retry on ResourceExhausted, salvage otherwise);     *)
(*   - agents/langchain_gemini_agent.py: format_guard and to_json;         *)
(*   - demo.py: the launcher's marker-aware format_guard and               *)
(*     _format_final_block.                                                *)
(* Texts are sequences of characters (one-character strings).  The two     *)
(* non-ASCII characters of the source are written as the tokens EnDash and *)
(* CurlyApos.  The only line boundary in the alphabet is "\n" and the      *)
(* whitespace characters are " ", "\t" and "\n".                           *)
(***************************************************************************)
EXTENDS Integers, Sequences, FiniteSets, TLC

VARIABLES
    \* ---- recovery wrapper (agents/agent.py, main block) ----
    pc,         \* position in the main block
    calls,      \* outcome class of every agent_executor.invoke so far
    result,     \* out["output"] of the invocation that returned, or NoText
    exc,        \* exception being handled by "except Exception as e"
    salvaged,   \* what try_extract_final returned / raised, or NotCalled
    stdout,     \* texts printed to standard output
    stderr,     \* texts printed to standard error
    slept,      \* seconds spent in time.sleep
    uncaught,   \* exception that left the main block, or NoExc
    exitCode,   \* process exit status, -1 while running
    \* ---- normalizer and projection (pure functions applied to inputs) ----
    which,      \* function under test: "agent", "launcher" or "block"
    raw,        \* raw text handed to the normalizer
    n,          \* max_bullets
    phase,      \* "input", "normalized", "renormalized" or "projected"; "idle"
                \* while the recovery wrapper runs
    out,        \* normalizer(raw, n)
    out2,       \* normalizer(out, n)
    js,         \* to_json(out), before json.dumps
    \* ---- command lines: demo.py main / run_agent and the main block of
    \* ---- agents/langchain_gemini_agent.py
    cliPc,               \* position in the launcher / child run
    launcherArgs,        \* args.max and args.fresh of the launcher (None or int)
    child_args,          \* the flags the launcher passes to the child
    launcherMaxBullets,  \* max_bullets of run_agent
    childArgs,           \* args.max and args.fresh of the child
    HEADLINE_MAX,        \* module global read by news_headlines
    HEADLINE_FRESH_DAYS, \* module global read by news_headlines
    toolRead,            \* what news_headlines read and how many rows it returned
    agentOut,            \* result["output"] of the child's agent
    guardMax,            \* max_bullets the child passed to format_guard
    safe_out,            \* format_guard(result["output"], HEADLINE_MAX)
    childStdout,         \* standard output of the child
    launcherOut          \* what the launcher prints after post-processing

varsMain == <<pc, calls, result, exc, salvaged, stdout, stderr, slept, uncaught, exitCode>>
varsNorm == <<which, raw, n, phase, out, out2, js>>
varsCli == <<cliPc, launcherArgs, child_args, launcherMaxBullets, childArgs, HEADLINE_MAX,
             HEADLINE_FRESH_DAYS, toolRead, agentOut, guardMax, safe_out, childStdout,
             launcherOut>>
vars == <<pc, calls, result, exc, salvaged, stdout, stderr, slept, uncaught, exitCode,
          which, raw, n, phase, out, out2, js,
          cliPc, launcherArgs, child_args, launcherMaxBullets, childArgs, HEADLINE_MAX,
          HEADLINE_FRESH_DAYS, toolRead, agentOut, guardMax, safe_out, childStdout,
          launcherOut>>

\* HEADLINE_FRESH_DAYS = 1 and HEADLINE_MAX = 4 at import
InitialFreshDays == 1
InitialHeadlineMax == 4

\* an optional integer of argparse: None, or the integer
NoneArg == [given |-> FALSE, val |-> 0]
IntArg(i) == [given |-> TRUE, val |-> i]
NoRead == [max |-> 0, fresh |-> 0, rows |-> 0]

\* the state of the command-line variables before any of it runs: only the
\* module globals have values
CliNotStarted ==
    /\ child_args = <<>>
    /\ launcherMaxBullets = 0
    /\ childArgs = [max |-> 0, fresh |-> 0]
    /\ HEADLINE_MAX = InitialHeadlineMax
    /\ HEADLINE_FRESH_DAYS = InitialFreshDays
    /\ toolRead = NoRead
    /\ agentOut = <<"<unset>">>
    /\ guardMax = 0
    /\ safe_out = <<"<unset>">>
    /\ childStdout = <<>>
    /\ launcherOut = <<>>

\* the command lines are idle while the wrapper or the normalizers run
IdleCli ==
    /\ cliPc = "idle"
    /\ launcherArgs = [max |-> NoneArg, fresh |-> NoneArg]
    /\ CliNotStarted

----------------------------------------------------------------------------
(* Bounds of the model *)

\* exception / output texts are concatenations of at most MaxParts fragments
MaxParts == 3
\* --max and --fresh given to the launcher range over -1..MaxArg (or are absent)
MaxArg == 8
\* the news feed holds, and the agent's answer lists, at most MaxEmitted headlines
MaxEmitted == 6
\* raw normalizer texts are at most MaxLines sample lines joined by "\n"
MaxLines == 3
\* max_bullets ranges over 0..MaxBullets
MaxBullets == 2

----------------------------------------------------------------------------
(* Characters and Python string primitives *)

EnDash == "<en-dash>"
CurlyApos == "<curly-apostrophe>"
NL == "\n"

Whitespace == {" ", "\t", "\n"}
Digits == {"0", "1", "2", "3", "4", "5", "6", "7", "8", "9"}

SetMin(S) == CHOOSE x \in S : \A y \in S : x <= y
SetMax(S) == CHOOSE x \in S : \A y \in S : x >= y

\* str.strip()
Strip(s) ==
    LET ink == {i \in 1..Len(s) : s[i] \notin Whitespace}
    IN  IF ink = {} THEN <<>> ELSE SubSeq(s, SetMin(ink), SetMax(ink))

\* str.startswith(p)
StartsWith(s, p) == Len(s) >= Len(p) /\ SubSeq(s, 1, Len(p)) = p

\* str.find(p) + 1: least index at which p occurs in s, 0 when it does not
Find(s, p) ==
    LET at == {i \in 1..(Len(s) - Len(p) + 1) : SubSeq(s, i, i + Len(p) - 1) = p}
    IN  IF at = {} THEN 0 ELSE SetMin(at)

\* p in s
Contains(s, p) == Find(s, p) > 0

\* str.splitlines(): no trailing empty line, "" gives []
RECURSIVE SplitLines(_)
SplitLines(s) ==
    IF s = <<>> THEN <<>>
    ELSE LET i == Find(s, <<NL>>)
         IN  IF i = 0 THEN <<s>>
             ELSE <<SubSeq(s, 1, i - 1)>> \o SplitLines(SubSeq(s, i + 1, Len(s)))

\* str.replace(old, new): leftmost non-overlapping occurrences
RECURSIVE Replace(_, _, _)
Replace(s, old, new) ==
    LET i == Find(s, old)
    IN  IF i = 0 THEN s
        ELSE SubSeq(s, 1, i - 1) \o new
             \o Replace(SubSeq(s, i + Len(old), Len(s)), old, new)

\* sep.join(parts)
RECURSIVE Join(_, _)
Join(parts, sep) ==
    IF parts = <<>> THEN <<>>
    ELSE IF Len(parts) = 1 THEN parts[1]
    ELSE parts[1] \o sep \o Join(Tail(parts), sep)

\* concatenation of a sequence of texts
Concat(parts) == Join(parts, <<>>)

\* all sequences over S of length at most k
SeqsUpTo(S, k) == UNION {[1..m -> S] : m \in 0..k}

----------------------------------------------------------------------------
(* agents/agent.py: try_extract_final *)

FinalMarker == <<"F","i","n","a","l"," ","A","n","s","w","e","r",":">>

NoneValue == [kind |-> "None", val |-> <<>>]
StrValue(s) == [kind |-> "str", val |-> s]
Raised(cls) == [kind |-> cls, val |-> <<>>]

\* FINAL_RE.search(text): group(1) of the leftmost match of
\* r"Final Answer:\s*(.+)" with re.S, or NoneValue.  \s* is greedy and gives
\* characters back until (.+) has at least one character to take.
FinalReSearch(text) ==
    LET Rest(i) == SubSeq(text, i + Len(FinalMarker), Len(text))
        Lead(r) == SetMax({k \in 0..Len(r) : \A j \in 1..k : r[j] \in Whitespace})
        Takes(r) == {k \in 0..Lead(r) : Len(r) - k >= 1}
        starts == {i \in 1..Len(text) :
                      /\ StartsWith(SubSeq(text, i, Len(text)), FinalMarker)
                      /\ Takes(Rest(i)) # {}}
    IN  IF starts = {} THEN NoneValue
        ELSE LET r == Rest(SetMin(starts))
             IN  StrValue(SubSeq(r, SetMax(Takes(r)) + 1, Len(r)))

try_extract_final(text) ==
    LET m == FinalReSearch(text)
    IN  IF m.kind = "str"
        THEN LET ans == Strip(m.val)
                 ls == SplitLines(ans)
             IN  IF ls = <<>> THEN Raised("IndexError")
                 ELSE StrValue(Strip(ls[1]))
        ELSE NoneValue

----------------------------------------------------------------------------
(* agents/agent.py: the main block (recovery wrapper) *)

\* seconds of time.sleep before the retry
Backoff == 35

NoText == <<"<unset>">>
NoExc == [cls |-> "none", text |-> <<>>]
NotCalled == [kind |-> "not-called", val |-> <<>>]

\* texts the executor can return or raise with
Fragments == {FinalMarker, <<" ">>, <<NL>>, <<"4", "2">>, <<"x">>}
Texts == {Concat(p) : p \in SeqsUpTo(Fragments, MaxParts)}

\* what one agent_executor.invoke can do: return a dict whose "output" is a
\* text, or raise; ResourceExhausted is the rate-limit signal, BaseException
\* stands for KeyboardInterrupt / SystemExit
ExcClasses == {"ResourceExhausted", "Exception", "BaseException"}
Outcomes == [cls : {"return"} \cup ExcClasses, text : Texts]

\* faulty variant: the except clauses also guard the bodies of the except
\* clauses (as a retry loop around the whole try statement would)
CatchAnywhere(ctx, cls) ==
    IF cls = "ResourceExhausted" THEN "retry"
    ELSE IF cls \in {"Exception", "IndexError"} THEN "salvage"
    ELSE "propagate"

\* faulty variant: every exception of the try body is retried
CatchRetryAll(ctx, cls) ==
    IF ctx = "try"
    THEN IF cls \in {"ResourceExhausted", "Exception", "IndexError"} THEN "retry"
         ELSE "propagate"
    ELSE "propagate"

\* which clause of the try statement takes an exception of class cls raised
\* at ctx: "try" is the body of the try, "handler" the body of an except
\* clause, whose exceptions no sibling clause catches
Catch(ctx, cls) ==
    IF ctx = "try"
    THEN IF cls = "ResourceExhausted" THEN "retry"
         ELSE IF cls \in {"Exception", "IndexError"} THEN "salvage"
         ELSE "propagate"
    ELSE "propagate"

\* faulty variant: the else branch reports on stderr but forgets sys.exit(1)
SalvageBranchNoExit(s, e) ==
    IF s.kind = "str" /\ s.val # <<>>
    THEN [print |-> <<s.val>>, err |-> <<>>, exit |-> 0]
    ELSE [print |-> <<>>,
          err |-> <<[msg |-> "hint", text |-> <<>>], [msg |-> "str(e)", text |-> e.text]>>,
          exit |-> 0]

\* the body of "except Exception as e" after try_extract_final returned s:
\* what is printed where, and how the process ends
SalvageBranch(s, e) ==
    IF s.kind = "str" /\ s.val # <<>>
    THEN [print |-> <<s.val>>, err |-> <<>>, exit |-> 0]
    ELSE [print |-> <<>>,
          err |-> <<[msg |-> "hint", text |-> <<>>], [msg |-> "str(e)", text |-> e.text]>>,
          exit |-> 1]

\* an exception of class o.cls raised by invoke at ctx
Raise(ctx, o) ==
    LET to == Catch(ctx, o.cls)
    IN  /\ result' = result
        /\ IF to = "retry"
           THEN /\ pc' = "rate_limited"
                /\ UNCHANGED <<exc, uncaught, exitCode>>
           ELSE IF to = "salvage"
           THEN /\ pc' = "salvaging"
                /\ exc' = [cls |-> o.cls, text |-> o.text]
                /\ UNCHANGED <<uncaught, exitCode>>
           ELSE /\ pc' = "done"
                /\ uncaught' = [cls |-> o.cls, text |-> o.text]
                /\ exitCode' = 1
                /\ exc' = exc

\* line 112: out = agent_executor.invoke({"input": q})
Invoke ==
    /\ pc = "start"
    /\ \E o \in Outcomes :
          /\ calls' = Append(calls, o.cls)
          /\ IF o.cls = "return"
             THEN /\ result' = o.text
                  /\ pc' = "returned"
                  /\ UNCHANGED <<exc, uncaught, exitCode>>
             ELSE Raise("try", o)
    /\ UNCHANGED <<salvaged, stdout, stderr, slept>>
    /\ UNCHANGED varsNorm
    /\ UNCHANGED varsCli

\* lines 113 and 118: print(out.get("output", "").strip()), then the end of
\* the main block
PrintOutput ==
    /\ pc = "returned"
    /\ stdout' = Append(stdout, Strip(result))
    /\ pc' = "done"
    /\ exitCode' = 0
    /\ UNCHANGED <<calls, result, exc, salvaged, stderr, slept, uncaught>>
    /\ UNCHANGED varsNorm
    /\ UNCHANGED varsCli

\* lines 114-117: the rate-limit clause: notice on stderr, sleep, invoke again
Retry ==
    /\ pc = "rate_limited"
    /\ stderr' = Append(stderr, [msg |-> "rate-limit", text |-> <<>>])
    /\ slept' = slept + Backoff
    /\ \E o \in Outcomes :
          /\ calls' = Append(calls, o.cls)
          /\ IF o.cls = "return"
             THEN /\ result' = o.text
                  /\ pc' = "returned"
                  /\ UNCHANGED <<exc, uncaught, exitCode>>
             ELSE Raise("handler", o)
    /\ UNCHANGED <<salvaged, stdout>>
    /\ UNCHANGED varsNorm
    /\ UNCHANGED varsCli

\* lines 119-128: the generic clause: salvage a final answer from str(e)
Salvage ==
    /\ pc = "salvaging"
    /\ LET s == try_extract_final(exc.text)
       IN  /\ salvaged' = s
           /\ pc' = "done"
           /\ IF s.kind \notin {"str", "None"}
              THEN \* try_extract_final raised inside the except clause
                   /\ uncaught' = [cls |-> s.kind, text |-> <<>>]
                   /\ exitCode' = 1
                   /\ UNCHANGED <<stdout, stderr>>
              ELSE LET b == SalvageBranch(s, exc)
                   IN  /\ stdout' = stdout \o b.print
                       /\ stderr' = stderr \o b.err
                       /\ exitCode' = b.exit
                       /\ uncaught' = uncaught
    /\ UNCHANGED <<calls, result, exc, slept>>
    /\ UNCHANGED varsNorm
    /\ UNCHANGED varsCli

InitMain ==
    /\ pc = "start"
    /\ calls = <<>>
    /\ result = NoText
    /\ exc = NoExc
    /\ salvaged = NotCalled
    /\ stdout = <<>>
    /\ stderr = <<>>
    /\ slept = 0
    /\ uncaught = NoExc
    /\ exitCode = -1

\* the normalizer is idle while the wrapper runs
IdleNorm ==
    /\ which = "agent"
    /\ raw = <<>>
    /\ n = 0
    /\ phase = "idle"
    /\ out = NoText
    /\ out2 = NoText
    /\ js = [price |-> NoText, headlines |-> <<>>]

Init == InitMain /\ IdleNorm /\ IdleCli

Next == Invoke \/ PrintOutput \/ Retry \/ Salvage

Spec == Init /\ [][Next]_vars

----------------------------------------------------------------------------
(* Claims about the recovery wrapper, checked under Spec *)

Returned == \E i \in 1..Len(calls) : calls[i] = "return"
Salvaged == salvaged.kind = "str" /\ salvaged.val # <<>>

\* C1: the executor is invoked at most twice, and a second invocation happens
\* only after the first one raised ResourceExhausted; after any other outcome
\* of the first invocation there is no second one.
C1_AtMostOneRetry ==
    /\ Len(calls) <= 2
    /\ Len(calls) = 2 => calls[1] = "ResourceExhausted"
    /\ pc = "rate_limited" => calls = <<"ResourceExhausted">>

C1_Witness ==
    /\ pc = "done"
    /\ Len(calls) = 2
    /\ calls[1] = "ResourceExhausted"

\* C2: when the first invocation raised ResourceExhausted and the retry raises
\* too (rate limit or anything else), that second exception leaves the main
\* block as it is: no salvage is applied, no third invocation is made, nothing
\* is written to standard output.
C2_RetryFailurePropagates ==
    (Len(calls) >= 2 /\ calls[2] # "return") =>
        /\ pc = "done"
        /\ Len(calls) = 2
        /\ uncaught.cls = calls[2]
        /\ salvaged = NotCalled
        /\ stdout = <<>>
        /\ exitCode = 1

\* the retry raised an exception whose text holds a salvageable final answer
C2_Witness ==
    /\ Len(calls) = 2
    /\ calls[2] = "Exception"
    /\ uncaught.text = FinalMarker \o <<" ", "4", "2">>
    /\ pc = "done"

\* C3: standard output is written only if an invocation returned normally or
\* try_extract_final salvaged a final answer, and then it holds exactly that
\* answer; every other finished run wrote nothing to standard output and ended
\* with a non-zero exit status.
C3_NoFabricatedAnswer ==
    /\ stdout # <<>> =>
          /\ Returned \/ Salvaged
          /\ stdout = <<IF Returned THEN Strip(result) ELSE salvaged.val>>
    /\ (pc = "done" /\ ~(Returned \/ Salvaged)) =>
          /\ stdout = <<>>
          /\ exitCode > 0

\* a failure inside the salvage step itself
C3_Witness ==
    /\ pc = "done"
    /\ salvaged.kind = "IndexError"
    /\ stdout = <<>>
    /\ exitCode = 1

\* C4: try_extract_final returns None when the text has no 'Final Answer:'
\* marker, and otherwise the text that follows the marker up to the first line
\* break (surrounding blanks dropped, as in 'Final Answer: 42' giving '42'),
\* also when the marker is followed by a line break, by blanks only or by
\* nothing.
AfterMarker(t) == SubSeq(t, Find(t, FinalMarker) + Len(FinalMarker), Len(t))
UpToLineBreak(t) == IF Find(t, <<NL>>) = 0 THEN t ELSE SubSeq(t, 1, Find(t, <<NL>>) - 1)

C4_ExtractsUpToLineBreak ==
    salvaged # NotCalled =>
        salvaged = IF Contains(exc.text, FinalMarker)
                   THEN StrValue(Strip(UpToLineBreak(AfterMarker(exc.text))))
                   ELSE NoneValue

----------------------------------------------------------------------------
(* agents/langchain_gemini_agent.py: format_guard and to_json *)

Dash == <<"-", " ">>
Hyphen == <<" ", "-", " ">>
EnSep == <<" ", EnDash, " ">>

Sentinel ==
    <<"N","o"," ","r","e","c","e","n","t"," ","h","e","a","d","l","i","n","e","s"," ",
      "f","o","u","n","d",".">>

\* the headlines tool's own "nothing found" text (news_headlines)
ToolSentinel ==
    <<"N","o"," ","h","e","a","d","l","i","n","e","s"," ","f","o","u","n","d",".">>

\* faulty variant: seq[:k + 1]
SliceOffByOne(seq, k) ==
    IF k + 1 >= 0
    THEN SubSeq(seq, 1, IF k + 1 < Len(seq) THEN k + 1 ELSE Len(seq))
    ELSE SubSeq(seq, 1, IF Len(seq) + k + 1 > 0 THEN Len(seq) + k + 1 ELSE 0)

\* seq[:k] of Python (a negative k counts from the end)
Slice(seq, k) ==
    IF k >= 0
    THEN SubSeq(seq, 1, IF k < Len(seq) THEN k ELSE Len(seq))
    ELSE SubSeq(seq, 1, IF Len(seq) + k > 0 THEN Len(seq) + k ELSE 0)

\* [l.strip() for l in (out_str or "").strip().splitlines() if l.strip()]
Lines(out_str) ==
    LET ls == SplitLines(Strip(out_str))
        stripped == [i \in 1..Len(ls) |-> Strip(ls[i])]
    IN  SelectSeq(stripped, LAMBDA l : l # <<>>)

\* PRICE_RE.match(l) with PRICE_RE = r"^\$\d[\d,]*\.?\d*$"; the final $ also
\* matches just before a line break that ends the text
PriceFull(s) ==
    /\ Len(s) >= 2
    /\ s[1] = "$"
    /\ s[2] \in Digits
    /\ \E a \in 2..Len(s) : \E d \in {0, 1} :
          /\ \A j \in 3..a : s[j] \in Digits \cup {","}
          /\ d = 1 => (a + 1 <= Len(s) /\ s[a + 1] = ".")
          /\ \A j \in (a + d + 1)..Len(s) : s[j] \in Digits

PRICE_RE(l) ==
    \/ PriceFull(l)
    \/ Len(l) > 0 /\ l[Len(l)] = NL /\ PriceFull(SubSeq(l, 1, Len(l) - 1))

\* next((l for l in lines if PRICE_RE.match(l)), lines[0])
PriceLine(lines) ==
    LET hits == {i \in 1..Len(lines) : PRICE_RE(lines[i])}
    IN  IF hits = {} THEN lines[1] ELSE lines[SetMin(hits)]

\* l.startswith("- ")
IsBullet(l) == StartsWith(l, Dash)

\* b = l[2:].strip(); b = b.replace(" - ", " <en dash> "); b = b.replace(<curly>, "'")
CleanBullet(l) ==
    Replace(Replace(Strip(SubSeq(l, 3, Len(l))), Hyphen, EnSep), <<CurlyApos>>, <<"'">>)

\* the loop collecting the bullets of the dash-prefixed lines, in order
CollectBullets(lines) ==
    LET dashed == SelectSeq(lines, IsBullet)
    IN  [i \in 1..Len(dashed) |-> CleanBullet(dashed[i])]

\* faulty variant: the headlines tool's text instead of the sentinel
OrToolSentinel(bullets) == IF bullets = <<>> THEN <<ToolSentinel>> ELSE bullets

\* if not bullets: bullets = ["No recent headlines found."]
OrSentinel(bullets) == IF bullets = <<>> THEN <<Sentinel>> ELSE bullets

\* bullets = bullets[:max_bullets]
ClampBullets(bullets, max_bullets) == Slice(bullets, max_bullets)

\* [price] + [f"- {b}" for b in bullets]
Rebuild(price, bullets) ==
    <<price>> \o [i \in 1..Len(bullets) |-> Dash \o bullets[i]]

format_guard(out_str, max_bullets) ==
    LET lines == Lines(out_str)
    IN  IF lines = <<>> THEN out_str
        ELSE Join(Rebuild(PriceLine(lines),
                          ClampBullets(OrSentinel(CollectBullets(lines)), max_bullets)),
                  <<NL>>)

\* title, host = txt.split(" <en dash> ", 1) when the separator is in txt,
\* else txt, ""; both stripped
Headline(txt) ==
    LET i == Find(txt, EnSep)
    IN  IF i > 0
        THEN [title |-> Strip(SubSeq(txt, 1, i - 1)),
              host |-> Strip(SubSeq(txt, i + Len(EnSep), Len(txt)))]
        ELSE [title |-> Strip(txt), host |-> <<>>]

\* to_json up to json.dumps: the dict that is serialised (json.dumps with
\* ensure_ascii=False writes this dict one-to-one)
to_json(out_str) ==
    LET lines == Lines(out_str)
        rest == IF lines = <<>> THEN <<>> ELSE Tail(lines)
        dashed == SelectSeq(rest, IsBullet)
    IN  [price |-> IF lines = <<>> THEN <<>> ELSE lines[1],
         headlines |-> [i \in 1..Len(dashed) |->
                           Headline(Strip(SubSeq(dashed[i], 3, Len(dashed[i]))))]]

----------------------------------------------------------------------------
(* demo.py: the launcher's format_guard and _format_final_block *)

ResultMarker ==
    <<"-","-","-","-","F","i","n","a","l"," ","R","e","s","u","l","t","-","-","-","-">>

NoOutput == <<NL, NL, "(","N","o"," ","o","u","t","p","u","t",")", NL>>

_format_final_block(block, max_bullets) ==
    LET lines == Lines(block)
    IN  IF lines = <<>> THEN NoOutput
        ELSE <<NL>>
             \o Join(Rebuild(PriceLine(lines),
                             ClampBullets(OrSentinel(CollectBullets(lines)), max_bullets)),
                     <<NL>>)
             \o <<NL>>

\* format_guard of demo.py: only the text after the first marker is formatted
demo_format_guard(out_str, max_bullets) ==
    IF Strip(out_str) = <<>> THEN out_str
    ELSE LET i == Find(out_str, ResultMarker)
         IN  IF i > 0
             THEN SubSeq(out_str, 1, i - 1) \o ResultMarker
                  \o _format_final_block(
                         SubSeq(out_str, i + Len(ResultMarker), Len(out_str)), max_bullets)
             ELSE _format_final_block(out_str, max_bullets)

----------------------------------------------------------------------------
(* The normalizers and the projection applied to bounded inputs *)

PriceLn == <<"$", "1", "2", "3", ".", "4", "5">>
TitleA == <<"-"," ","T","i","t","l","e"," ","A"," ","-"," ","H","o","s","t"," ","A">>
TitleB == <<"-"," ","T","i","t","l","e"," ","B"," ","-"," ","H","o","s","t"," ","B">>
\* leading blank, doubled blank before a hyphen, two hyphens in a row, a curly
\* apostrophe
MessyLn == <<" ","-"," ","a"," "," ","-"," ","b"," ","-"," ","-"," ","c",CurlyApos,"s">>
\* a row of the headlines tool copied as a bullet: Title | full_link | host
UrlLn == <<"-"," ","T"," ","|"," ","h","t","t","p","s",":","/","/","h",".","c","o","/","p",
           " ","|"," ","h",".","c","o">>
PlainLn == <<"n", "/", "a">>
BlankLn == <<" ">>

SampleLines == {PriceLn, TitleA, TitleB, MessyLn, UrlLn, PlainLn, BlankLn, ResultMarker}

RawTexts == {Join(ls, <<NL>>) : ls \in SeqsUpTo(SampleLines, MaxLines)}

Normalizer(w, text, k) ==
    IF w = "agent" THEN format_guard(text, k)
    ELSE IF w = "launcher" THEN demo_format_guard(text, k)
    ELSE _format_final_block(text, k)

\* safe_out = format_guard(result.get("output", ""), HEADLINE_MAX)
GuardAgent ==
    /\ phase = "input"
    /\ which = "agent"
    /\ out' = format_guard(raw, n)
    /\ phase' = "normalized"
    /\ UNCHANGED <<which, raw, n, out2, js>>
    /\ UNCHANGED varsMain
    /\ UNCHANGED varsCli

\* out = format_guard(out, max_bullets) in run_agent
GuardLauncher ==
    /\ phase = "input"
    /\ which = "launcher"
    /\ out' = demo_format_guard(raw, n)
    /\ phase' = "normalized"
    /\ UNCHANGED <<which, raw, n, out2, js>>
    /\ UNCHANGED varsMain
    /\ UNCHANGED varsCli

\* _format_final_block applied to a block
FormatBlock ==
    /\ phase = "input"
    /\ which = "block"
    /\ out' = _format_final_block(raw, n)
    /\ phase' = "normalized"
    /\ UNCHANGED <<which, raw, n, out2, js>>
    /\ UNCHANGED varsMain
    /\ UNCHANGED varsCli

\* the same normalizer applied to its own output
Renormalize ==
    /\ phase = "normalized"
    /\ out2' = Normalizer(which, out, n)
    /\ phase' = "renormalized"
    /\ UNCHANGED <<which, raw, n, out, js>>
    /\ UNCHANGED varsMain
    /\ UNCHANGED varsCli

\* print(to_json(safe_out))
Project ==
    /\ phase = "normalized"
    /\ which = "agent"
    /\ js' = to_json(out)
    /\ phase' = "projected"
    /\ UNCHANGED <<which, raw, n, out, out2>>
    /\ UNCHANGED varsMain
    /\ UNCHANGED varsCli

\* the wrapper is idle while the normalizers run
IdleMain ==
    /\ pc = "idle"
    /\ calls = <<>>
    /\ result = NoText
    /\ exc = NoExc
    /\ salvaged = NotCalled
    /\ stdout = <<>>
    /\ stderr = <<>>
    /\ slept = 0
    /\ uncaught = NoExc
    /\ exitCode = -1

InitNorm ==
    /\ IdleMain
    /\ IdleCli
    /\ which \in {"agent", "launcher", "block"}
    /\ raw \in RawTexts
    /\ n \in 0..MaxBullets
    /\ phase = "input"
    /\ out = NoText
    /\ out2 = NoText
    /\ js = [price |-> NoText, headlines |-> <<>>]

NextNorm == GuardAgent \/ GuardLauncher \/ FormatBlock \/ Renormalize \/ Project

SpecNorm == InitNorm /\ [][NextNorm]_vars

----------------------------------------------------------------------------
(* Claims about the normalizers and the projection, checked under SpecNorm *)

Normalized == phase \in {"normalized", "renormalized", "projected"}
\* the line-producing normalizers: format_guard of the agent and
\* _format_final_block of the launcher
LineWise == which \in {"agent", "block"}
\* the dash-prefixed lines of the raw text, in order
DashedInput == SelectSeq(Lines(raw), IsBullet)
\* the lines of the normalized output and, after the first, its bullets
OutLines == Lines(out)
OutBullets == IF OutLines = <<>> THEN <<>> ELSE Tail(OutLines)
MinOf(a, b) == IF a < b THEN a ELSE b

\* C5: normalizing an already normalized text changes nothing:
\* format_guard(format_guard(x, n), n) = format_guard(x, n), for the agent's
\* normalizer and for the launcher's.
C5_Idempotent ==
    (phase = "renormalized" /\ which \in {"agent", "launcher"}) => out2 = out

\* C6: for a raw text with a non-blank line and max_bullets in 1..5 the output
\* is one price line that is not dash-prefixed, followed by between 1 and
\* max_bullets dash-prefixed lines.
C6_PriceThenBullets ==
    (Normalized /\ LineWise /\ Lines(raw) # <<>> /\ n \in 1..5) =>
        /\ Len(OutLines) \in 2..(n + 1)
        /\ ~IsBullet(OutLines[1])
        /\ \A i \in 2..Len(OutLines) : IsBullet(OutLines[i])

\* C7: the normalized output holds no raw URL anywhere.
HasUrl(t) ==
    \/ Contains(t, <<"h","t","t","p",":","/","/">>)
    \/ Contains(t, <<"h","t","t","p","s",":","/","/">>)

C7_NoRawUrl == (Normalized /\ which = "agent") => ~HasUrl(out)

\* C8: re-flattening to_json(format_guard(x, n)) (the price, then '- title'
\* when host is empty and '- title <en dash> host' otherwise) gives back the
\* text of format_guard(x, n), for every raw text x with a non-blank line.
Flatten(j) ==
    <<j.price>> \o [i \in 1..Len(j.headlines) |->
                      IF j.headlines[i].host = <<>>
                      THEN Dash \o j.headlines[i].title
                      ELSE Dash \o j.headlines[i].title \o EnSep \o j.headlines[i].host]

C8_ProjectionLossless ==
    (phase = "projected" /\ Lines(raw) # <<>>) => Join(Flatten(js), <<NL>>) = out

\* C9: with at least one dash-prefixed input line and max_bullets >= 0, the
\* bullets of the output are the first min(k, max_bullets) dash-prefixed input
\* lines in their order, each without its dash-space prefix, with
\* space-hyphen-space turned into space-en-dash-space and curly apostrophes
\* into straight ones: at most max_bullets of them, never padded.  The
\* example of the specification with max_bullets = 1 comes out as stated.
Canonical(l) ==
    LET body == Strip(SubSeq(l, 3, Len(l)))
        dashed == Replace(body, <<" ", "-", " ">>, <<" ", EnDash, " ">>)
    IN  <<"-", " ">> \o Replace(dashed, <<CurlyApos>>, <<"'">>)

ExampleRaw == Join(<<PriceLn, TitleA, TitleB>>, <<NL>>)
ExampleOut ==
    <<"$","1","2","3",".","4","5", NL,
      "-"," ","T","i","t","l","e"," ","A"," ",EnDash," ","H","o","s","t"," ","A">>

C9_BulletsAreFirstDashed ==
    (Normalized /\ LineWise /\ Len(DashedInput) >= 1 /\ n >= 0) =>
        /\ Len(OutBullets) = MinOf(Len(DashedInput), n)
        /\ \A i \in 1..Len(OutBullets) : OutBullets[i] = Canonical(DashedInput[i])
        /\ (which = "agent" /\ raw = ExampleRaw /\ n = 1) => out = ExampleOut

C9_Witness ==
    /\ phase = "normalized"
    /\ which = "agent"
    /\ raw = ExampleRaw
    /\ n = 1
    /\ out = ExampleOut

\* C10: with a non-blank line but no dash-prefixed line, and max_bullets in
\* 1..5, the bullets of the output are exactly the one sentinel bullet
\* 'No recent headlines found.'.
SentinelBullet ==
    <<"-"," ","N","o"," ","r","e","c","e","n","t"," ","h","e","a","d","l","i","n","e","s"," ",
      "f","o","u","n","d",".">>

C10_SentinelOnly ==
    (Normalized /\ LineWise /\ Lines(raw) # <<>> /\ DashedInput = <<>> /\ n \in 1..5) =>
        OutBullets = <<SentinelBullet>>

C10_Witness ==
    /\ phase = "normalized"
    /\ which = "block"
    /\ raw = Join(<<PlainLn, PriceLn>>, <<NL>>)
    /\ n = 2
    /\ out = <<NL>> \o PriceLn \o <<NL>> \o SentinelBullet \o <<NL>>

----------------------------------------------------------------------------
(* demo.py main / run_agent and the main block of                          *)
(* agents/langchain_gemini_agent.py: the launcher forwards --max and       *)
(* --fresh to the stock agent, which clamps them, runs the agent, prints   *)
(* the guarded result; the launcher post-processes what the child printed. *)
(* The run is one of --which gemini_react without --json.                  *)

PyMax(a, b) == IF a >= b THEN a ELSE b
PyMin(a, b) == IF a <= b THEN a ELSE b

DigitChars == <<"0", "1", "2", "3", "4", "5", "6", "7", "8", "9">>

\* str(i) of an integer: decimal digits, "-" in front of a negative one
RECURSIVE NatStr(_)
NatStr(i) ==
    IF i < 10 THEN <<DigitChars[i + 1]>>
    ELSE NatStr(i \div 10) \o <<DigitChars[(i % 10) + 1]>>

IntStr(i) == IF i < 0 THEN <<"-">> \o NatStr(0 - i) ELSE NatStr(i)

\* int(s) of argparse's type=int on such a text
RECURSIVE ParseNat(_)
ParseNat(s) ==
    LET d == CHOOSE v \in 0..9 : DigitChars[v + 1] = s[Len(s)]
    IN  IF Len(s) = 1 THEN d ELSE 10 * ParseNat(SubSeq(s, 1, Len(s) - 1)) + d

ParseInt(s) == IF s[1] = "-" THEN 0 - ParseNat(Tail(s)) ELSE ParseNat(s)

\* child_args += ["--max", str(args.max)] when args.max is not None, and the
\* same for --fresh
ForwardedArgs(a) ==
    (IF a.max.given THEN <<[flag |-> "--max", value |-> IntStr(a.max.val)]>> ELSE <<>>)
    \o (IF a.fresh.given THEN <<[flag |-> "--fresh", value |-> IntStr(a.fresh.val)]>>
        ELSE <<>>)

\* max_bullets = args.max if (isinstance(args.max, int) and 1 <= args.max <= 5) else 4
LauncherBullets(a) ==
    IF a.given /\ 1 <= a.val /\ a.val <= 5 THEN a.val ELSE 4

\* parser.parse_args() of the child: the value after the flag, else the default
FlagValue(argv, flag, default) ==
    LET at == {i \in 1..Len(argv) : argv[i].flag = flag}
    IN  IF at = {} THEN default ELSE ParseInt(argv[SetMax(at)].value)

\* faulty variant: only the upper limit is applied
ClampMaxUpperOnly(v) == PyMin(v, 5)

\* HEADLINE_MAX = max(1, min(args.max, 5))
ClampHeadlineMax(v) == PyMax(1, PyMin(v, 5))

\* HEADLINE_FRESH_DAYS = max(1, min(args.fresh, 7))
ClampFreshDays(v) == PyMax(1, PyMin(v, 7))

\* the loop of news_headlines over the items of the feed: a row is appended,
\* then the loop ends once len(rows) >= int(HEADLINE_MAX)
RECURSIVE FeedLoop(_, _, _)
FeedLoop(rows, items, limit) ==
    IF items = 0 THEN rows
    ELSE IF rows + 1 >= limit THEN rows + 1
    ELSE FeedLoop(rows + 1, items - 1, limit)

\* an answer of the agent: the price line and k bullets
BulletLn(i) == <<"-", " ", "T">> \o NatStr(i)
EmittedText(k) == Join(<<PriceLn>> \o [i \in 1..k |-> BulletLn(i)], <<NL>>)

OptionalArgs == {NoneArg} \cup {IntArg(i) : i \in (0 - 1)..MaxArg}

\* demo.py main, branch args.which == "gemini_react", up to the subprocess
LauncherMain ==
    /\ cliPc = "launcher"
    /\ child_args' = ForwardedArgs(launcherArgs)
    /\ launcherMaxBullets' = LauncherBullets(launcherArgs.max)
    /\ cliPc' = "spawned"
    /\ UNCHANGED <<launcherArgs, childArgs, HEADLINE_MAX, HEADLINE_FRESH_DAYS, toolRead,
                   agentOut, guardMax, safe_out, childStdout, launcherOut>>
    /\ UNCHANGED <<varsMain, varsNorm>>

\* the child: parse_args, then the two clamped overrides of the globals
ChildParse ==
    /\ cliPc = "spawned"
    /\ LET a == [max |-> FlagValue(child_args, "--max", 4),
                 fresh |-> FlagValue(child_args, "--fresh", 1)]
       IN  /\ childArgs' = a
           /\ HEADLINE_MAX' = ClampHeadlineMax(a.max)
           /\ HEADLINE_FRESH_DAYS' = ClampFreshDays(a.fresh)
    /\ cliPc' = "clamped"
    /\ UNCHANGED <<launcherArgs, child_args, launcherMaxBullets, toolRead, agentOut,
                   guardMax, safe_out, childStdout, launcherOut>>
    /\ UNCHANGED <<varsMain, varsNorm>>

\* result = agent_executor.invoke({"input": goal}): the agent calls
\* news_headlines, which reads the two globals, and answers with some text
ChildInvoke ==
    /\ cliPc = "clamped"
    /\ \E feed \in 0..MaxEmitted : \E k \in 0..MaxEmitted :
          /\ toolRead' = [max |-> HEADLINE_MAX, fresh |-> HEADLINE_FRESH_DAYS,
                          rows |-> FeedLoop(0, feed, HEADLINE_MAX)]
          /\ agentOut' = EmittedText(k)
    /\ cliPc' = "invoked"
    /\ UNCHANGED <<launcherArgs, child_args, launcherMaxBullets, childArgs, HEADLINE_MAX,
                   HEADLINE_FRESH_DAYS, guardMax, safe_out, childStdout, launcherOut>>
    /\ UNCHANGED <<varsMain, varsNorm>>

\* print("----Final Result----"); safe_out = format_guard(...); print(safe_out)
ChildPrint ==
    /\ cliPc = "invoked"
    /\ guardMax' = HEADLINE_MAX
    /\ safe_out' = format_guard(agentOut, HEADLINE_MAX)
    /\ childStdout' = ResultMarker \o <<NL>> \o format_guard(agentOut, HEADLINE_MAX) \o <<NL>>
    /\ cliPc' = "printed"
    /\ UNCHANGED <<launcherArgs, child_args, launcherMaxBullets, childArgs, HEADLINE_MAX,
                   HEADLINE_FRESH_DAYS, toolRead, agentOut, launcherOut>>
    /\ UNCHANGED <<varsMain, varsNorm>>

\* run_agent with postprocess=True: out = format_guard(out, max_bullets); print
LauncherPost ==
    /\ cliPc = "printed"
    /\ launcherOut' = demo_format_guard(childStdout, launcherMaxBullets)
    /\ cliPc' = "posted"
    /\ UNCHANGED <<launcherArgs, child_args, launcherMaxBullets, childArgs, HEADLINE_MAX,
                   HEADLINE_FRESH_DAYS, toolRead, agentOut, guardMax, safe_out, childStdout>>
    /\ UNCHANGED <<varsMain, varsNorm>>

InitCli ==
    /\ IdleMain
    /\ IdleNorm
    /\ cliPc = "launcher"
    /\ launcherArgs \in [max : OptionalArgs, fresh : OptionalArgs]
    /\ CliNotStarted

NextCli == LauncherMain \/ ChildParse \/ ChildInvoke \/ ChildPrint \/ LauncherPost

SpecCli == InitCli /\ [][NextCli]_vars

----------------------------------------------------------------------------
(* Claims about the command lines, checked under SpecCli *)

ChildInvoked == cliPc \in {"invoked", "printed", "posted"}
ChildPrinted == cliPc \in {"printed", "posted"}

\* C11: whatever integers --max and --fresh are, the headline count that
\* news_headlines reads lies in 1..5 and the recency window in 1..7 (values
\* already in range are kept), the globals hold the clamped values before the
\* agent is invoked, and the same headline count is the max_bullets handed to
\* format_guard.
C11_ClampedBeforeInvoke ==
    /\ HEADLINE_MAX \in 1..5
    /\ HEADLINE_FRESH_DAYS \in 1..7
    /\ ChildInvoked =>
          /\ toolRead.max \in 1..5
          /\ toolRead.fresh \in 1..7
          /\ toolRead.rows <= toolRead.max
          /\ childArgs.max \in 1..5 => toolRead.max = childArgs.max
          /\ childArgs.fresh \in 1..7 => toolRead.fresh = childArgs.fresh
          /\ childArgs.max > 5 => toolRead.max = 5
          /\ childArgs.max < 1 => toolRead.max = 1
    /\ ChildPrinted => guardMax = toolRead.max

\* --max 8 --fresh 0: the tool read 5 and 1, and format_guard was given 5
C11_Witness ==
    /\ cliPc = "printed"
    /\ childArgs = [max |-> 8, fresh |-> 0]
    /\ toolRead.max = 5
    /\ toolRead.fresh = 1
    /\ toolRead.rows = 5
    /\ guardMax = 5

\* C12: for every integer --max the launcher forwards, the max_bullets it
\* post-processes with is at least the headline count the child clamps --max
\* to, and the launcher's output has the bullet lines the child printed.
BulletLines(t) == SelectSeq(Lines(t), IsBullet)

C12_LauncherKeepsBullets ==
    (cliPc = "posted" /\ launcherArgs.max.given) =>
        /\ launcherMaxBullets >= HEADLINE_MAX
        /\ BulletLines(launcherOut) = BulletLines(childStdout)

====
